---- MODULE Spec2Model ----
(***************************************************************************)
(* Android-SMS-API: the device bridge (src/utils/adb.py), its HTTP routes  *)
(* (src/routes/adb.py) on the request-handling loop, and the wireless      *)
(* pairing service with its QR payload (src/utils/adb_wireless.py), the    *)
(* application startup (src/app.py) and the monthly reset job              *)
(* (src/utils/scheduler.py).                                               *)
(*                                                                         *)
(* Text is a sequence of atoms.  An atom is a string standing for one or   *)
(* more characters that the code never looks inside: " ", "\t", "\n" are   *)
(* the whitespace characters, every other atom is a run of non-whitespace  *)
(* characters.  A Python str built from atoms is their concatenation.      *)
(***************************************************************************)
EXTENDS Integers, Sequences, FiniteSets, TLC

VARIABLES
    \* ---- Adb.get_devices / GET /list-devices
    output,          \* what adb_execute(["devices"]) gives: [raised, stdout]
    administrator,   \* account.administrator of the request
    list_pc,         \* "start", "returned" (get_devices), "responded" (route)
    devices,         \* the value get_devices returned (or the raised error)
    list_response    \* the HTTP response of GET /list-devices

list_vars == <<output, administrator, list_pc, devices, list_response>>

VARIABLES
    \* ---- Adb.send_text_message
    phone_number,    \* argument
    message,         \* argument
    device_id,       \* the caller's device argument (body.device_id), never reassigned
    device_name,     \* the parameter, reassigned when the default device is chosen
    send_pc,         \* "start", "query", "resolve", "issue", "done"
    all_devices,     \* the list get_devices returned to send_text_message
    commands,        \* the argument vectors handed to adb_execute, in order
    parcel,          \* what adb_execute gave for the service call
    send_result      \* how the call ended: a returned tuple or a raised exception

send_vars == <<phone_number, message, device_id, device_name, send_pc, all_devices,
               commands, parcel, send_result>>

VARIABLES
    \* ---- the wireless pairing service: one AdbListener and one worker per session
    target_name,     \* listener.target_name, per session ("" before the session starts)
    password,        \* listener.password, per session
    shutdown_event,  \* listener.shutdown_event.is_set(), per session
    worker,          \* where listen_for_connection is: "idle", "loop", "timecheck",
                     \* "finally", "exited"
    browser,         \* the session's Zeroconf browser: "none", "open", "closed"
    elapsed,         \* time.time() - start_time as the worker reads it, in polls
    timed_out,       \* the worker logged "Pairing session timed out"
    callback,        \* where add_service is: "idle", "pair", "connect"
    broadcasts,      \* discovery broadcasts the network has yet to deliver
    pair_log,        \* the bridge commands the callbacks ran, with their results
    heard,           \* the `name` argument of the add_service call that is running
    escaped          \* an exception has left add_service, per session

pair_vars == <<target_name, password, shutdown_event, worker, browser, elapsed,
               timed_out, callback, broadcasts, pair_log, heard, escaped>>

VARIABLES
    \* ---- QRPrepare and the device that scans the code
    service_name,    \* generate_qr_code: the generated name, as characters
    code,            \* generate_qr_code: the generated password, as characters
    qr_data,         \* the payload generate_qr_content built
    scanned,         \* (service_name, password) as read back from the payload
    qr_pc            \* "idle", "start", "generated", "scanned"

qr_vars == <<service_name, code, qr_data, scanned, qr_pc>>

VARIABLES
    \* ---- the Connection Manager operations and POST /connect-device
    link,            \* the bridge server holds a connection to the address
    calls            \* the calls made so far, each with its commands and result

conn_vars == <<link, calls>>

VARIABLES
    \* ---- the request-handling loop and POST /send-text-message
    loop,            \* the request whose handler the event loop is running, or Free
    proc,            \* the request whose bridge command runs as a process, or Free
    req,             \* per request: route, account, body, position, commands, response
    message_count,   \* rows of the messages table, per username
    users            \* the users table: messages_limit and administrator

serve_vars == <<loop, proc, req, message_count, users>>

VARIABLES
    \* ---- application startup (lifespan) and the daily reset job
    settings,        \* the environment: the .env values and the database file as found
    boot,            \* lifespan: position, connection_failed, scheduler started
    today,           \* the calendar date
    resets           \* the calls of reset_all_messages so far, with their dates

app_vars == <<settings, boot, today, resets>>

vars == <<list_vars, send_vars, pair_vars, qr_vars, conn_vars, serve_vars, app_vars>>

-----------------------------------------------------------------------------
(* Bounds of the model *)

\* longest listing text after the header, in atoms
MaxBody == 5

\* most devices in a listing the bridge prints
MaxDevices == 2

\* the session timeout, in polls of the worker (timeout / 0.5 s in the code)
TimeoutPolls == 1

\* discovery broadcasts delivered to the listeners of two sessions over a
\* run; a session running alone is delivered one more
MaxBroadcasts == 1

\* characters of a generated name after its prefix (length=10 in the code)
SuffixLen == 2

\* characters of a generated password (length=6 in the code)
CodeLen == 2

\* calls of the Connection Manager over a run
MaxCalls == 2

\* largest messages_limit of an account
MaxLimit == 1

-----------------------------------------------------------------------------
(* Python str helpers, computed as CPython computes them *)

\* str.isspace for the atoms used here
IsSpace(c) == c \in {" ", "\t", "\n", "\r"}

\* all sequences over S of length <= n
RECURSIVE SeqsUpTo(_, _)
SeqsUpTo(S, n) ==
    IF n = 0 THEN {<<>>}
    ELSE LET shorter == SeqsUpTo(S, n - 1)
         IN shorter \cup {Append(s, c) : s \in {t \in shorter : Len(t) = n - 1}, c \in S}

\* ''.join(atoms)
RECURSIVE Join(_)
Join(s) == IF s = <<>> THEN "" ELSE Head(s) \o Join(Tail(s))

\* str.lstrip()
RECURSIVE LStrip(_)
LStrip(s) == IF s # <<>> /\ IsSpace(Head(s)) THEN LStrip(Tail(s)) ELSE s

\* str.rstrip()
RECURSIVE RStrip(_)
RStrip(s) ==
    IF s # <<>> /\ IsSpace(s[Len(s)]) THEN RStrip(SubSeq(s, 1, Len(s) - 1)) ELSE s

\* str.strip()
Strip(s) == RStrip(LStrip(s))

\* str.split('\n'): always at least one piece
RECURSIVE SplitNewline(_, _)
SplitNewline(s, cur) ==
    IF s = <<>> THEN <<cur>>
    ELSE IF Head(s) = "\n" THEN <<cur>> \o SplitNewline(Tail(s), <<>>)
    ELSE SplitNewline(Tail(s), Append(cur, Head(s)))

\* str.split(): the maximal runs of non-whitespace, as strings
RECURSIVE SplitWhitespace(_, _)
SplitWhitespace(s, cur) ==
    IF s = <<>> THEN (IF cur = <<>> THEN <<>> ELSE <<Join(cur)>>)
    ELSE IF IsSpace(Head(s))
         THEN (IF cur = <<>> THEN <<>> ELSE <<Join(cur)>>) \o SplitWhitespace(Tail(s), <<>>)
    ELSE SplitWhitespace(Tail(s), Append(cur, Head(s)))

-----------------------------------------------------------------------------
(* Bridge Executor results *)

\* a completed process: subprocess.CompletedProcess
Completed(rc, out) == [raised |-> "none", returncode |-> rc, stdout |-> out]

\* subprocess.run raising instead of returning
Raised(exc) == [raised |-> exc, returncode |-> 0, stdout |-> <<>>]

\* the failures adb_execute lets out: FileNotFoundError re-raised, TimeoutExpired not caught
ExecutorFailures == {"FileNotFoundError", "TimeoutExpired"}

-----------------------------------------------------------------------------
(* Adb.get_devices *)

\* the loop body of get_devices for one line: zero or one device
ParseLine(line) ==
    IF Strip(line) # <<>>
    THEN LET parts == SplitWhitespace(line, <<>>)
         IN IF Len(parts) >= 2
            THEN <<[id |-> parts[1], status |-> parts[2]]>>
            ELSE <<>>
    ELSE <<>>

RECURSIVE ParseLines(_)
ParseLines(lines) ==
    IF lines = <<>> THEN <<>> ELSE ParseLine(Head(lines)) \o ParseLines(Tail(lines))

\* output.stdout.strip().split('\n')[1:]
DataLinesMutKeepHeader(text) == SplitNewline(Strip(text), <<>>)

DataLines(text) == Tail(SplitNewline(Strip(text), <<>>))

\* the list get_devices returns for one stdout
get_devices(text) == ParseLines(DataLines(text))

\* get_devices as called: the executor's failure propagates
GetDevicesResult(out) ==
    IF out.raised # "none" THEN [raised |-> out.raised, value |-> <<>>]
    ELSE [raised |-> "none", value |-> get_devices(out.stdout)]

-----------------------------------------------------------------------------
(* GET /list-devices *)

\* the Literal of AdbListDevices.status
AdbListDevicesStatus ==
    {"device", "unauthorized", "offline", "recovery",
     "bootloader", "sideload", "authorizing", "connecting"}

\* FastAPI validates the returned value against response_model=list[AdbListDevices]
ResponseModelAccepts(devs) ==
    \A i \in 1..Len(devs) : devs[i].status \in AdbListDevicesStatus

\* the whole handler adb_list_devices
adb_list_devices(admin, out) ==
    IF ~admin THEN [status_code |-> 401, body |-> <<>>]
    ELSE LET got == GetDevicesResult(out)
         IN IF got.raised # "none" THEN [status_code |-> 500, body |-> <<>>]
            ELSE IF ResponseModelAccepts(got.value)
                 THEN [status_code |-> 200, body |-> got.value]
                 ELSE [status_code |-> 500, body |-> <<>>]

-----------------------------------------------------------------------------
(* The listing text: the bridge's "devices" output *)

\* "List of devices attached"
HeaderLine == <<"List", " ", "of", " ", "devices", " ", "attached">>

\* atoms of the text after the header
BodyAlphabet == {"X", "device", "host", " ", "\n"}

\* a device-listing output: optional leading blank text, the header, then the data lines
FreeListings ==
    {pre \o HeaderLine \o body :
        pre \in {<<>>, <<"\n">>},
        body \in {<<>>} \cup {<<"\n">> \o b : b \in SeqsUpTo(BodyAlphabet, MaxBody)}}

\* the devices the bridge may list: the same serial can be listed more than once
DeviceIds == {"X", "Y"}

DeviceStatuses == {"device", "unauthorized", "offline"}

Listings == SeqsUpTo([id : DeviceIds, status : DeviceStatuses], MaxDevices)

\* the bridge's own rendering: header, one "<id>\t<status>" line per device, a blank line
RECURSIVE RenderLines(_)
RenderLines(entries) ==
    IF entries = <<>> THEN <<>>
    ELSE <<Head(entries).id, "\t", Head(entries).status, "\n">> \o RenderLines(Tail(entries))

RenderListing(entries) == HeaderLine \o <<"\n">> \o RenderLines(entries) \o <<"\n">>

ListingOutputs == FreeListings \cup {RenderListing(e) : e \in Listings}

ListInit ==
    /\ output \in {Completed(0, t) : t \in ListingOutputs}
                    \cup {Raised(e) : e \in ExecutorFailures}
    /\ administrator \in BOOLEAN
    /\ list_pc = "start"
    /\ devices = [raised |-> "none", value |-> <<>>]
    /\ list_response = [status_code |-> 0, body |-> <<>>]

\* no get_devices call or request under way
ListIdle ==
    /\ output = Raised("none")
    /\ administrator = FALSE
    /\ list_pc = "idle"
    /\ devices = [raised |-> "none", value |-> <<>>]
    /\ list_response = [status_code |-> 0, body |-> <<>>]

\* a direct call of Adb.get_devices
GetDevicesCall ==
    /\ list_pc = "start"
    /\ devices' = GetDevicesResult(output)
    /\ list_pc' = "returned"
    /\ UNCHANGED <<output, administrator, list_response>>
    /\ UNCHANGED <<send_vars, pair_vars, qr_vars, conn_vars, serve_vars, app_vars>>

\* one GET /list-devices request
ListDevicesRequest ==
    /\ list_pc = "start"
    /\ list_response' = adb_list_devices(administrator, output)
    /\ list_pc' = "responded"
    /\ UNCHANGED <<output, administrator, devices>>
    /\ UNCHANGED <<send_vars, pair_vars, qr_vars, conn_vars, serve_vars, app_vars>>

-----------------------------------------------------------------------------
(* Adb.send_text_message *)

\* Python's None, for an unset device_name
None == "<None>"

\* bool(x) of an Optional[str]
Truthy(x) == x # None /\ x # ""

\* str(x)
Str(x) == IF x = None THEN "None" ELSE x

\* the guard of the ValueError: `not phone_number and message`
MissingParameters(phone, msg) == (~Truthy(phone)) /\ Truthy(msg)

\* the for loop over all_devices: the default device, the status check, device_found
RECURSIVE ResolveLoopMutNoStatusCheck(_, _, _)
ResolveLoopMutNoStatusCheck(devs, name, found) ==
    IF devs = <<>>
    THEN [device_name |-> name, device_found |-> found, unavailable |-> FALSE, status |-> ""]
    ELSE LET d  == Head(devs)
             n1 == IF ~Truthy(name) /\ d.status = "device" THEN d.id ELSE name
         IN ResolveLoopMutNoStatusCheck(Tail(devs), n1, found \/ d.id = n1)

RECURSIVE ResolveLoopMutFirstEntry(_, _, _)
ResolveLoopMutFirstEntry(devs, name, found) ==
    IF devs = <<>>
    THEN [device_name |-> name, device_found |-> found, unavailable |-> FALSE, status |-> ""]
    ELSE LET d  == Head(devs)
             n1 == IF ~Truthy(name) THEN d.id ELSE name
         IN IF d.id = n1
            THEN IF d.status # "device"
                 THEN [device_name |-> n1, device_found |-> found,
                       unavailable |-> TRUE, status |-> d.status]
                 ELSE ResolveLoopMutFirstEntry(Tail(devs), n1, TRUE)
            ELSE ResolveLoopMutFirstEntry(Tail(devs), n1, found)

RECURSIVE ResolveLoopMutFoundAny(_, _, _)
ResolveLoopMutFoundAny(devs, name, found) ==
    IF devs = <<>>
    THEN [device_name |-> name, device_found |-> found, unavailable |-> FALSE, status |-> ""]
    ELSE LET d  == Head(devs)
             n1 == IF ~Truthy(name) /\ d.status = "device" THEN d.id ELSE name
         IN IF d.id = n1
            THEN IF d.status # "device"
                 THEN [device_name |-> n1, device_found |-> found,
                       unavailable |-> TRUE, status |-> d.status]
                 ELSE ResolveLoopMutFoundAny(Tail(devs), n1, TRUE)
            ELSE ResolveLoopMutFoundAny(Tail(devs), n1, found \/ d.status = "device")

RECURSIVE ResolveLoopMutGenericStatus(_, _, _)
ResolveLoopMutGenericStatus(devs, name, found) ==
    IF devs = <<>>
    THEN [device_name |-> name, device_found |-> found, unavailable |-> FALSE, status |-> ""]
    ELSE LET d  == Head(devs)
             n1 == IF ~Truthy(name) /\ d.status = "device" THEN d.id ELSE name
         IN IF d.id = n1
            THEN IF d.status # "device"
                 THEN [device_name |-> n1, device_found |-> found,
                       unavailable |-> TRUE, status |-> "unauthorized"]
                 ELSE ResolveLoopMutGenericStatus(Tail(devs), n1, TRUE)
            ELSE ResolveLoopMutGenericStatus(Tail(devs), n1, found)

RECURSIVE ResolveLoop(_, _, _)
ResolveLoop(devs, name, found) ==
    IF devs = <<>>
    THEN [device_name |-> name, device_found |-> found, unavailable |-> FALSE, status |-> ""]
    ELSE LET d  == Head(devs)
             n1 == IF ~Truthy(name) /\ d.status = "device" THEN d.id ELSE name
         IN IF d.id = n1
            THEN IF d.status # "device"
                 THEN [device_name |-> n1, device_found |-> found,
                       unavailable |-> TRUE, status |-> d.status]
                 ELSE ResolveLoop(Tail(devs), n1, TRUE)
            ELSE ResolveLoop(Tail(devs), n1, found)

\* the argument vector of the SMS service call
adb_command(device, phone, msg) ==
    << "-s", Str(device),
       "shell", "service", "call", "isms", "5",
       "i32", "0",
       "s16", "com.android.mms.service",
       "s16", "null",
       "s16", phone,
       "s16", "null",
       "s16 \"" \o msg \o "\"",
       "s16", "null",
       "s16", "null",
       "i32", "0",
       "i64", "0" >>

\* message texts: empty, one word, with a blank, with double quotes
Messages == {"", "hi", "see you", "say \"hi\""}

\* the text of a message as runs of characters free of blanks and double
\* quotes, with each blank and each double quote on its own
MessageAtoms(msg) ==
    CASE msg = "" -> <<>>
      [] msg = "hi" -> <<"hi">>
      [] msg = "see you" -> <<"see", " ", "you">>
      [] msg = "say \"hi\"" -> <<"say", " ", "\"", "hi", "\"">>

\* one element of the argument vector in the same form; line 201 builds
\* the only element that holds a blank or a double quote
ArgumentAtoms(x) ==
    IF \E m \in Messages : x = "s16 \"" \o m \o "\""
    THEN <<"s16", " ", "\"">>
         \o MessageAtoms(CHOOSE m \in Messages : x = "s16 \"" \o m \o "\"")
         \o <<"\"">>
    ELSE IF x = "" THEN <<>> ELSE <<x>>

\* `adb -s <serial> shell <arguments>`: the bridge joins the arguments after
\* "shell" with single blanks into one command line for the device's shell
RECURSIVE JoinArguments(_)
JoinArguments(argv) ==
    IF argv = <<>> THEN <<>>
    ELSE IF Len(argv) = 1 THEN ArgumentAtoms(argv[1])
    ELSE ArgumentAtoms(argv[1]) \o <<" ">> \o JoinArguments(Tail(argv))

RemoteLine(command) == JoinArguments(SubSeq(command, 4, Len(command)))

\* the device's shell splits the line into words at blanks outside double
\* quotes and removes the quotes; a quote left open is a syntax error
RECURSIVE ShellParse(_, _, _, _, _)
ShellParse(line, words, word, in_word, quoted) ==
    IF line = <<>>
    THEN [ok |-> ~quoted, words |-> IF in_word THEN Append(words, word) ELSE words]
    ELSE IF Head(line) = "\""
    THEN ShellParse(Tail(line), words, word, TRUE, ~quoted)
    ELSE IF Head(line) = " " /\ ~quoted
    THEN ShellParse(Tail(line), IF in_word THEN Append(words, word) ELSE words,
                    <<>>, FALSE, FALSE)
    ELSE ShellParse(Tail(line), words, Append(word, Head(line)), TRUE, quoted)

ShellWords(line) == ShellParse(line, <<>>, <<>>, FALSE, FALSE)

\* the literal opening of the pattern: "Result: Parcel("
ParcelOpen == "Result: Parcel("

\* [0-9a-fA-F]+ over the atoms of a command output
IsHex(c) == c \in {"00000000", "fffffffc", "0", "a"}

\* re.search(r"Result: Parcel\([0-9a-fA-F]+\s+'.*'\)", stdout): some match exists
ParcelSearch(t) ==
    \E i \in 1..Len(t) :
        /\ t[i] = ParcelOpen
        /\ \E j \in (i + 1)..Len(t) :
            /\ \A k \in (i + 1)..j : IsHex(t[k])
            /\ \E m \in (j + 1)..Len(t) :
                /\ \A k \in (j + 1)..m : IsSpace(t[k])
                /\ m + 1 <= Len(t) /\ t[m + 1] = "'"
                /\ \E q \in (m + 2)..(Len(t) - 1) :
                    /\ t[q] = "'" /\ t[q + 1] = ")"
                    /\ \A k \in (m + 2)..(q - 1) : t[k] # "\n"

\* how a call ends
Returned(ok, dev) ==
    [kind |-> "return", success |-> ok, device |-> dev, exc |-> "", status |-> ""]

Raises(e, st) ==
    [kind |-> "raise", success |-> FALSE, device |-> "", exc |-> e, status |-> st]

NoResult == [kind |-> "none", success |-> FALSE, device |-> "", exc |-> "", status |-> ""]

\* the outputs of the service call the bridge may print
ParcelOutputs ==
    {head \o hex \o ws \o payload \o close :
        head    \in {<<ParcelOpen>>, <<"Result:">>},
        hex     \in {<<>>, <<"00000000">>, <<"fffffffc">>, <<"Error:">>, <<"NULL">>},
        ws      \in {<<>>, <<" ", " ", " ", " ">>},
        payload \in {<<>>, <<"'", "....", "'">>, <<"'", "'">>, <<"'", "\n", "'">>},
        close   \in {<<>>, <<")">>, <<")", "\n">>}}

PhoneNumbers == {"", "0501234567"}

\* device_name as passed: unset, listed serials, a serial never listed
DeviceNames == {None, "X", "Y", "Z"}

SendInit ==
    /\ phone_number \in PhoneNumbers
    /\ message \in Messages
    /\ device_id \in DeviceNames
    /\ device_name = device_id
    /\ send_pc = "start"
    /\ all_devices = <<>>
    /\ commands = <<>>
    /\ parcel = Raised("none")
    /\ send_result = NoResult

\* no send_text_message call under way
SendIdle ==
    /\ phone_number = ""
    /\ message = ""
    /\ device_id = None
    /\ device_name = None
    /\ send_pc = "idle"
    /\ all_devices = <<>>
    /\ commands = <<>>
    /\ parcel = Raised("none")
    /\ send_result = NoResult

\* lines 165-169: the parameter check
SendValidate ==
    /\ send_pc = "start"
    /\ IF MissingParameters(phone_number, message)
       THEN /\ send_result' = Raises("ValueError", "")
            /\ send_pc' = "done"
       ELSE /\ send_pc' = "query"
            /\ UNCHANGED send_result
    /\ UNCHANGED <<phone_number, message, device_id, device_name, all_devices, commands, parcel>>
    /\ UNCHANGED <<list_vars, pair_vars, qr_vars, conn_vars, serve_vars, app_vars>>

\* lines 171-172: all_devices = await self.get_devices()
SendQuery ==
    /\ send_pc = "query"
    /\ \E out \in {Completed(0, RenderListing(e)) : e \in Listings}
                    \cup {Raised(e) : e \in ExecutorFailures} :
        LET got == GetDevicesResult(out)
        IN /\ commands' = Append(commands, <<"devices">>)
           /\ IF got.raised # "none"
              THEN /\ send_result' = Raises(got.raised, "")
                   /\ send_pc' = "done"
                   /\ UNCHANGED all_devices
              ELSE /\ all_devices' = got.value
                   /\ send_pc' = "resolve"
                   /\ UNCHANGED send_result
    /\ UNCHANGED <<phone_number, message, device_id, device_name, parcel>>
    /\ UNCHANGED <<list_vars, pair_vars, qr_vars, conn_vars, serve_vars, app_vars>>

\* lines 174-190: the loop, then the device_found check
SendResolve ==
    /\ send_pc = "resolve"
    /\ LET r == ResolveLoop(all_devices, device_name, FALSE)
       IN /\ device_name' = r.device_name
          /\ IF r.unavailable
             THEN /\ send_result' = Raises("DeviceUnavailable", r.status)
                  /\ send_pc' = "done"
             ELSE IF ~r.device_found
             THEN /\ send_result' = Raises("DeviceConnectionError", "")
                  /\ send_pc' = "done"
             ELSE /\ send_pc' = "issue"
                  /\ UNCHANGED send_result
    /\ UNCHANGED <<phone_number, message, device_id, all_devices, commands, parcel>>
    /\ UNCHANGED <<list_vars, pair_vars, qr_vars, conn_vars, serve_vars, app_vars>>

\* lines 192-217: the service call and the reading of its output
SendIssue ==
    /\ send_pc = "issue"
    /\ \E out \in {Completed(0, t) : t \in ParcelOutputs}
                    \cup {Raised(e) : e \in ExecutorFailures} :
        /\ commands' = Append(commands, adb_command(device_name, phone_number, message))
        /\ send_result' = IF out.raised # "none" THEN Raises(out.raised, "")
                          ELSE Returned(ParcelSearch(out.stdout), Str(device_name))
        /\ parcel' = out
    /\ send_pc' = "done"
    /\ UNCHANGED <<phone_number, message, device_id, device_name, all_devices>>
    /\ UNCHANGED <<list_vars, pair_vars, qr_vars, conn_vars, serve_vars, app_vars>>

-----------------------------------------------------------------------------
(* The wireless pairing service *)

\* the pairing sessions of a run
Sessions == {"s1", "s2"}

\* what QRPrepare.generate_name and generate_code can return
ServiceNames == {"adb-pairing-aaaaaaaaaa", "adb-pairing-bbbbbbbbbb"}

Codes == {"000000", "111111"}

FirstName == "adb-pairing-aaaaaaaaaa"

FirstCode == "000000"

\* the instance names a broadcast can carry, by the service names they contain
BroadcastNames == {{}} \cup {{n} : n \in ServiceNames}

\* no add_service call is running
NoName == {"<no call>"}

\* `x in text` for a text of atoms
Contains(text, x) == \E i \in 1..Len(text) : text[i] = x

\* what the bridge may answer to `pair`, `tcpip` and `connect`
PairOutputs ==
    {Completed(0, <<"Successfully paired", " ", "to", " ", "host">>),
     Completed(0, <<"Failed:", " ", "Wrong", " ", "password">>),
     Completed(1, <<"error:", " ", "protocol", " ", "fault">>)}

ConnectOutputs ==
    {Completed(0, <<"connected", " ", "to", " ", "host">>),
     Completed(0, <<"already", " ", "connected", " ", "to", " ", "host">>),
     Completed(0, <<"failed", " ", "to", " ", "connect">>)}

\* Adb.pair_device: TimeoutExpired is caught and None returned (is_none)
pair_device(out) ==
    IF out.raised = "TimeoutExpired" THEN [raised |-> "none", is_none |-> TRUE, process |-> out]
    ELSE IF out.raised # "none" THEN [raised |-> out.raised, is_none |-> FALSE, process |-> out]
    ELSE [raised |-> "none", is_none |-> FALSE, process |-> out]

\* AdbListener.pair_device_successful: reading .returncode of None raises
pair_device_successfulMutExitCodeOnly(out) ==
    LET r == pair_device(out)
    IN IF r.raised # "none" THEN [raised |-> r.raised, value |-> FALSE]
       ELSE IF r.is_none THEN [raised |-> "AttributeError", value |-> FALSE]
       ELSE [raised |-> "none", value |-> r.process.returncode = 0]

pair_device_successful(out) ==
    LET r == pair_device(out)
    IN IF r.raised # "none" THEN [raised |-> r.raised, value |-> FALSE]
       ELSE IF r.is_none THEN [raised |-> "AttributeError", value |-> FALSE]
       ELSE [raised |-> "none",
             value |-> r.process.returncode = 0
                       /\ Contains(r.process.stdout, "Successfully paired")]

\* Adb.connect_device: the commands it runs, in order, and how it ends; a
\* failing tcpip restart ends the call before the connect command
connect_deviceMutRaiseOnFailure(disable_tcpip_command, tcpip_out, connect_out) ==
    IF ~disable_tcpip_command /\ tcpip_out.raised # "none"
    THEN [ran |-> <<[cmd |-> "tcpip", out |-> tcpip_out]>>,
          raised |-> tcpip_out.raised, process |-> tcpip_out]
    ELSE [ran |-> (IF disable_tcpip_command THEN <<>>
                   ELSE <<[cmd |-> "tcpip", out |-> tcpip_out]>>)
                  \o <<[cmd |-> "connect", out |-> connect_out]>>,
          raised |-> IF connect_out.raised # "none" THEN connect_out.raised
                     ELSE IF Contains(connect_out.stdout, "connected")
                             \/ Contains(connect_out.stdout, "already")
                     THEN "none" ELSE "DeviceConnectionError",
          process |-> connect_out]

connect_deviceMutConnectFirst(disable_tcpip_command, tcpip_out, connect_out) ==
    IF disable_tcpip_command
    THEN [ran |-> <<[cmd |-> "connect", out |-> connect_out]>>,
          raised |-> connect_out.raised, process |-> connect_out]
    ELSE IF connect_out.raised # "none"
    THEN [ran |-> <<[cmd |-> "connect", out |-> connect_out]>>,
          raised |-> connect_out.raised, process |-> connect_out]
    ELSE [ran |-> <<[cmd |-> "connect", out |-> connect_out],
                    [cmd |-> "tcpip", out |-> tcpip_out]>>,
          raised |-> tcpip_out.raised, process |-> connect_out]

connect_device(disable_tcpip_command, tcpip_out, connect_out) ==
    IF disable_tcpip_command
    THEN [ran |-> <<[cmd |-> "connect", out |-> connect_out]>>,
          raised |-> connect_out.raised, process |-> connect_out]
    ELSE IF tcpip_out.raised # "none"
    THEN [ran |-> <<[cmd |-> "tcpip", out |-> tcpip_out]>>,
          raised |-> tcpip_out.raised, process |-> tcpip_out]
    ELSE [ran |-> <<[cmd |-> "tcpip", out |-> tcpip_out],
                    [cmd |-> "connect", out |-> connect_out]>>,
          raised |-> connect_out.raised, process |-> connect_out]

\* AdbListener.connect_device_successful: connect_device(address, disable_tcpip_command=False)
connect_device_successful(tcpip_out, connect_out) ==
    LET r == connect_device(FALSE, tcpip_out, connect_out)
    IN [ran |-> r.ran, raised |-> r.raised,
        value |-> r.raised = "none"
                  /\ (Contains(r.process.stdout, "connected")
                      \/ Contains(r.process.stdout, "already"))]

\* `time.time() - start_time > timeout`
ExpiredMutNever(polls) == FALSE

Expired(polls) == polls > TimeoutPolls

\* what the log keeps of a command: who ran it, with which password, and
\* whether it returned an output carrying its success text
Succeeded(cmd, out) ==
    /\ out.raised = "none"
    /\ cmd = "pair" => Contains(out.stdout, "Successfully paired")
    /\ cmd = "connect" => (Contains(out.stdout, "connected") \/ Contains(out.stdout, "already"))

RECURSIVE LogEntries(_, _)
LogEntries(s, ran) ==
    IF ran = <<>> THEN <<>>
    ELSE <<[sess |-> s, cmd |-> Head(ran).cmd, password |-> password[s],
            ok |-> Succeeded(Head(ran).cmd, Head(ran).out)]>> \o LogEntries(s, Tail(ran))

ListenerInit ==
    /\ target_name = [s \in Sessions |-> ""]
    /\ password = [s \in Sessions |-> ""]
    /\ shutdown_event = [s \in Sessions |-> FALSE]
    /\ worker = [s \in Sessions |-> "idle"]
    /\ browser = [s \in Sessions |-> "none"]
    /\ elapsed = [s \in Sessions |-> 0]
    /\ timed_out = [s \in Sessions |-> FALSE]
    /\ callback = [s \in Sessions |-> "idle"]
    /\ pair_log = <<>>
    /\ heard = [s \in Sessions |-> NoName]
    /\ escaped = [s \in Sessions |-> FALSE]

\* no session started yet; the broadcasts to come for two sessions
PairInit == ListenerInit /\ broadcasts = MaxBroadcasts

\* no session started yet; the broadcasts to come for a session running alone
PairOneInit == ListenerInit /\ broadcasts = MaxBroadcasts + 1

\* start_terminal_pairing_session / start_image_pairing_session: credentials,
\* listener, worker thread; the thread opens the browser and notes start_time.
\* Sessions are named in the order they start, and the generated values are
\* taken up to renaming: the first session's are FirstName and FirstCode, the
\* second session's may be the same or others.
StartListener(s) ==
    /\ worker[s] = "idle"
    /\ s = "s2" => worker["s1"] # "idle"
    /\ \E n \in ServiceNames, c \in Codes :
        /\ s = "s1" => (n = FirstName /\ c = FirstCode)
        /\ target_name' = [target_name EXCEPT ![s] = n]
        /\ password' = [password EXCEPT ![s] = c]
    /\ worker' = [worker EXCEPT ![s] = "loop"]
    /\ browser' = [browser EXCEPT ![s] = "open"]
    /\ UNCHANGED <<shutdown_event, elapsed, timed_out, callback, broadcasts, pair_log,
                   heard, escaped>>

StartSession(s) ==
    /\ StartListener(s)
    /\ UNCHANGED <<list_vars, send_vars, qr_vars, conn_vars, serve_vars, app_vars>>

\* listen_for_connection, line 115: while not self.shutdown_event.is_set()
WorkerCheckEvent(s) ==
    /\ worker[s] = "loop"
    /\ worker' = [worker EXCEPT ![s] = IF shutdown_event[s] THEN "finally" ELSE "timecheck"]
    /\ UNCHANGED <<target_name, password, shutdown_event, browser, elapsed, timed_out,
                   callback, broadcasts, pair_log, heard, escaped>>
    /\ UNCHANGED <<list_vars, send_vars, qr_vars, conn_vars, serve_vars, app_vars>>

\* lines 117-121: the timeout check, then time.sleep(0.5)
WorkerCheckTime(s) ==
    /\ worker[s] = "timecheck"
    /\ IF Expired(elapsed[s])
       THEN /\ timed_out' = [timed_out EXCEPT ![s] = TRUE]
            /\ worker' = [worker EXCEPT ![s] = "finally"]
            /\ UNCHANGED elapsed
       ELSE /\ elapsed' = [elapsed EXCEPT ![s] =
                              IF @ <= TimeoutPolls THEN @ + 1 ELSE @]
            /\ worker' = [worker EXCEPT ![s] = "loop"]
            /\ UNCHANGED timed_out
    /\ UNCHANGED <<target_name, password, shutdown_event, browser, callback,
                   broadcasts, pair_log, heard, escaped>>
    /\ UNCHANGED <<list_vars, send_vars, qr_vars, conn_vars, serve_vars, app_vars>>

\* lines 127-130: finally: zeroconf.close(), and the thread ends
WorkerClose(s) ==
    /\ worker[s] = "finally"
    /\ browser' = [browser EXCEPT ![s] = "closed"]
    /\ worker' = [worker EXCEPT ![s] = "exited"]
    /\ UNCHANGED <<target_name, password, shutdown_event, elapsed, timed_out,
                   callback, broadcasts, pair_log, heard, escaped>>
    /\ UNCHANGED <<list_vars, send_vars, qr_vars, conn_vars, serve_vars, app_vars>>

\* add_service, line 90: `self.target_name in name`
NameMatchesMutAny(target, name) == TRUE

NameMatches(target, name) == target \in name

\* add_service, lines 90-96: a broadcast reaches the open browser; on a name
\* match the service is resolved: None, an address and port, or no address
\* at all (info.addresses[0] raises IndexError, which leaves add_service)
Broadcast(s) ==
    /\ browser[s] = "open"
    /\ callback[s] = "idle"
    /\ broadcasts > 0
    /\ broadcasts' = broadcasts - 1
    /\ \E name \in BroadcastNames, info \in {"info", "None", "raise"} :
        LET go == NameMatches(target_name[s], name) /\ info = "info"
        IN /\ callback' = [callback EXCEPT ![s] = IF go THEN "pair" ELSE "idle"]
           /\ heard' = [heard EXCEPT ![s] = IF go THEN name ELSE NoName]
           /\ escaped' = [escaped EXCEPT ![s] =
                  @ \/ (NameMatches(target_name[s], name) /\ info = "raise")]
    /\ UNCHANGED <<target_name, password, shutdown_event, worker, browser, elapsed,
                   timed_out, pair_log>>
    /\ UNCHANGED <<list_vars, send_vars, qr_vars, conn_vars, serve_vars, app_vars>>

\* line 98: pair_device_successful(address, info.port, self.password)
CallbackPair(s) ==
    /\ callback[s] = "pair"
    /\ \E out \in PairOutputs \cup {Raised(e) : e \in ExecutorFailures} :
        LET r == pair_device_successful(out)
        IN /\ pair_log' = pair_log \o LogEntries(s, <<[cmd |-> "pair", out |-> out]>>)
           /\ callback' = [callback EXCEPT ![s] =
                  IF r.raised = "none" /\ r.value THEN "connect" ELSE "idle"]
           /\ heard' = [heard EXCEPT ![s] =
                  IF r.raised = "none" /\ r.value THEN @ ELSE NoName]
           /\ escaped' = [escaped EXCEPT ![s] = @ \/ r.raised # "none"]
    /\ UNCHANGED <<target_name, password, shutdown_event, worker, browser, elapsed,
                   timed_out, broadcasts>>
    /\ UNCHANGED <<list_vars, send_vars, qr_vars, conn_vars, serve_vars, app_vars>>

\* lines 100-102: connect_device_successful(address), whose result is dropped,
\* then shutdown_event.set(); an exception leaves the callback before the set
CallbackConnect(s) ==
    /\ callback[s] = "connect"
    /\ \E tcpip_out \in {Completed(0, <<"restarting", " ", "in", " ", "TCP", " ", "mode">>)}
                          \cup {Raised(e) : e \in ExecutorFailures},
          connect_out \in ConnectOutputs \cup {Raised(e) : e \in ExecutorFailures} :
        LET r == connect_device_successful(tcpip_out, connect_out)
        IN /\ pair_log' = pair_log \o LogEntries(s, r.ran)
           /\ shutdown_event' = [shutdown_event EXCEPT ![s] = @ \/ r.raised = "none"]
           /\ escaped' = [escaped EXCEPT ![s] = @ \/ r.raised # "none"]
    /\ callback' = [callback EXCEPT ![s] = "idle"]
    /\ heard' = [heard EXCEPT ![s] = NoName]
    /\ UNCHANGED <<target_name, password, worker, browser, elapsed, timed_out, broadcasts>>
    /\ UNCHANGED <<list_vars, send_vars, qr_vars, conn_vars, serve_vars, app_vars>>

WorkerStep(s) == WorkerCheckEvent(s) \/ WorkerCheckTime(s) \/ WorkerClose(s)

-----------------------------------------------------------------------------
(* The QR payload *)

\* the characters random.choices draws from: string.ascii_lowercase +
\* string.digits for the name, string.digits for the password
NameAlphabet == {"a", "z", "0", "9"}

CodeAlphabet == {"0", "9"}

\* all texts of exactly n characters of an alphabet
Words(alphabet, n) == [1..n -> alphabet]

\* QRPrepare.generate_name(length): the values it can return
generate_name(length) == {<<"adb-pairing-">> \o suffix : suffix \in Words(NameAlphabet, length)}

\* QRPrepare.generate_code(length): the values it can return
generate_code(length) == Words(CodeAlphabet, length)

\* QRPrepare.generate_qr_content: f"WIFI:T:ADB;S:{name};P:{password};;"
generate_qr_contentMutNoSeparator(name, pw) ==
    <<"WIFI", ":", "T", ":", "ADB", ";", "S", ":">> \o name \o <<"P", ":">> \o pw \o <<";", ";">>

generate_qr_content(name, pw) ==
    <<"WIFI", ":", "T", ":", "ADB", ";", "S", ":">> \o name
        \o <<";", "P", ":">> \o pw \o <<";", ";">>

\* text.split(sep) for a one-character separator
RECURSIVE SplitOn(_, _, _)
SplitOn(t, sep, cur) ==
    IF t = <<>> THEN <<cur>>
    ELSE IF Head(t) = sep THEN <<cur>> \o SplitOn(Tail(t), sep, <<>>)
    ELSE SplitOn(Tail(t), sep, Append(cur, Head(t)))

\* the value of the first field `key:value` of a list of fields (<<>> if none)
RECURSIVE FieldValue(_, _)
FieldValue(fields, key) ==
    IF fields = <<>> THEN <<>>
    ELSE IF Len(Head(fields)) >= 2 /\ Head(fields)[1] = key /\ Head(fields)[2] = ":"
         THEN SubSeq(Head(fields), 3, Len(Head(fields)))
         ELSE FieldValue(Tail(fields), key)

\* reading a payload of the Wi-Fi pairing URI convention: after the scheme
\* `WIFI:`, fields `key:value` ended by `;`; S is the name, P the password
ParseQrContent(data) ==
    IF Len(data) < 2 \/ data[1] # "WIFI" \/ data[2] # ":"
    THEN [ok |-> FALSE, service_name |-> <<>>, password |-> <<>>]
    ELSE LET fields == SplitOn(SubSeq(data, 3, Len(data)), ";", <<>>)
         IN [ok |-> TRUE,
             service_name |-> FieldValue(fields, "S"),
             password |-> FieldValue(fields, "P")]

NotScanned == [ok |-> FALSE, service_name |-> <<>>, password |-> <<>>]

QrIdle ==
    /\ service_name = <<>>
    /\ code = <<>>
    /\ qr_data = <<>>
    /\ scanned = NotScanned
    /\ qr_pc = "idle"

QrInit ==
    /\ service_name = <<>>
    /\ code = <<>>
    /\ qr_data = <<>>
    /\ scanned = NotScanned
    /\ qr_pc = "start"

\* QRPrepare.generate_qr_code: the name, the password and the payload
QrGenerate ==
    /\ qr_pc = "start"
    /\ \E name \in generate_name(SuffixLen), pw \in generate_code(CodeLen) :
        /\ service_name' = name
        /\ code' = pw
        /\ qr_data' = generate_qr_content(name, pw)
    /\ qr_pc' = "generated"
    /\ UNCHANGED scanned
    /\ UNCHANGED <<list_vars, send_vars, pair_vars, conn_vars, serve_vars, app_vars>>

\* the device reads the payload back
QrScan ==
    /\ qr_pc = "generated"
    /\ scanned' = ParseQrContent(qr_data)
    /\ qr_pc' = "scanned"
    /\ UNCHANGED <<service_name, code, qr_data>>
    /\ UNCHANGED <<list_vars, send_vars, pair_vars, conn_vars, serve_vars, app_vars>>

-----------------------------------------------------------------------------
(* The Connection Manager and POST /connect-device *)

\* len(text), in characters
RECURSIVE Chars(_)
Chars(t) == IF t = <<>> THEN 0 ELSE Len(Head(t)) + Chars(Tail(t))

\* AdbConnectDeviceResponse.adb_output: Field(..., max_length=99)
AdbOutputMaxLength == 99

\* a reason of 100 characters in a reply of the bridge
LongReason ==
    LET ten == "0123456789"
    IN ten \o ten \o ten \o ten \o ten \o ten \o ten \o ten \o ten \o ten

\* what the bridge answers to `connect <address>` and whether its server
\* holds the connection afterwards, by whether it held it before
BridgeConnect(linked) ==
    {[out |-> Raised(e), link |-> linked] : e \in ExecutorFailures}
    \cup (IF linked
          THEN {[out |-> Completed(0, <<"already", " ", "connected", " ", "to", " ", "host">>),
                 link |-> TRUE]}
          ELSE {[out |-> Completed(0, <<"connected", " ", "to", " ", "host">>), link |-> TRUE],
                [out |-> Completed(0, <<"failed", " ", "to", " ", "connect">>), link |-> FALSE],
                [out |-> Completed(0, <<"failed", " ", "to", " ", "connect:", " ", LongReason>>),
                 link |-> FALSE]})

\* `tcpip <port>` restarts the attached device's daemon in network mode: a
\* connection held over the network may or may not survive the restart
BridgeTcpip(linked) ==
    {[out |-> Raised("FileNotFoundError"), link |-> linked]}
    \cup {[out |-> o, link |-> l] :
            o \in {Raised("TimeoutExpired"),
                   Completed(0, <<"restarting", " ", "in", " ", "TCP", " ", "mode">>)},
            l \in IF linked THEN BOOLEAN ELSE {FALSE}}
    \cup {[out |-> Completed(1, <<"error:", " ", "no", " ", "single", " ", "device">>),
           link |-> linked]}

\* `kill-server` ends the bridge server and with it every connection
BridgeKillServer(linked) ==
    {[out |-> Raised("FileNotFoundError"), link |-> linked],
     [out |-> Completed(0, <<>>), link |-> FALSE]}
    \cup {[out |-> Raised("TimeoutExpired"), link |-> l] :
            l \in IF linked THEN BOOLEAN ELSE {FALSE}}

\* `pair <address:port> <password>` leaves the connections alone
BridgePair(linked) ==
    {[out |-> o, link |-> linked] : o \in PairOutputs \cup {Raised(e) : e \in ExecutorFailures}}

\* the bridge's answers to the commands of one connect_device call, and the
\* connection afterwards
ConnectRuns(disable_tcpip_command, linked) ==
    UNION {{[tcpip |-> t.out, connect |-> c.out,
             link |-> IF ~disable_tcpip_command /\ t.out.raised # "none"
                      THEN t.link ELSE c.link] :
               c \in BridgeConnect(IF disable_tcpip_command THEN linked ELSE t.link)} :
           t \in BridgeTcpip(linked)}

\* Adb.kill_server: one command, no return value
kill_server(out) ==
    [ran |-> <<[cmd |-> "kill-server", out |-> out]>>, raised |-> out.raised]

NoProcess == Completed(0, <<>>)

NoResponse == [status_code |-> 0, detail |-> "", adb_output |-> <<>>]

\* the whole handler adb_connect_device; an exception it does not catch
\* (the executor's, or the response model's on a too long adb_output) is
\* answered 500
adb_connect_device(admin, tcpip_out, connect_out) ==
    IF ~admin
    THEN [ran |-> <<>>, raised |-> "none", process |-> NoProcess,
          response |-> [status_code |-> 401,
                        detail |-> "You are not authorized perform this action!",
                        adb_output |-> <<>>]]
    ELSE LET device == connect_device(FALSE, tcpip_out, connect_out)
         IN IF device.raised # "none"
            THEN [ran |-> device.ran, raised |-> device.raised, process |-> NoProcess,
                  response |-> [status_code |-> 500, detail |-> "Internal Server Error",
                                adb_output |-> <<>>]]
            ELSE IF Chars(device.process.stdout) > AdbOutputMaxLength
            THEN [ran |-> device.ran, raised |-> "none", process |-> device.process,
                  response |-> [status_code |-> 500, detail |-> "Internal Server Error",
                                adb_output |-> <<>>]]
            ELSE [ran |-> device.ran, raised |-> "none", process |-> device.process,
                  response |->
                     [status_code |-> 200,
                      detail |-> IF Contains(device.process.stdout, "connected")
                                    \/ Contains(device.process.stdout, "already")
                                 THEN "ADB is now connected to device"
                                 ELSE "ADB Error while connecting to device!",
                      adb_output |-> device.process.stdout]]

ConnIdle == link = FALSE /\ calls = <<>>

\* the bridge server may already hold a connection to the address
ConnInit == link \in BOOLEAN /\ calls = <<>>

\* a direct call of Adb.pair_device
PairDeviceCall ==
    /\ Len(calls) < MaxCalls
    /\ \E b \in BridgePair(link) :
        LET r == pair_device(b.out)
        IN /\ calls' = Append(calls,
                [op |-> "pair", disable |-> FALSE, administrator |-> TRUE, linked |-> link,
                 ran |-> <<[cmd |-> "pair", out |-> b.out]>>, raised |-> r.raised,
                 is_none |-> r.is_none,
                 process |-> IF r.raised = "none" /\ ~r.is_none THEN r.process ELSE NoProcess,
                 response |-> NoResponse])
           /\ link' = b.link
    /\ UNCHANGED <<list_vars, send_vars, pair_vars, qr_vars, serve_vars, app_vars>>

\* a direct call of Adb.connect_device
ConnectDeviceCall ==
    /\ Len(calls) < MaxCalls
    /\ \E disable \in BOOLEAN :
        \E b \in ConnectRuns(disable, link) :
            LET r == connect_device(disable, b.tcpip, b.connect)
            IN /\ calls' = Append(calls,
                    [op |-> "connect", disable |-> disable, administrator |-> TRUE,
                     linked |-> link, ran |-> r.ran, raised |-> r.raised, is_none |-> FALSE,
                     process |-> IF r.raised = "none" THEN r.process ELSE NoProcess,
                     response |-> NoResponse])
               /\ link' = b.link
    /\ UNCHANGED <<list_vars, send_vars, pair_vars, qr_vars, serve_vars, app_vars>>

\* POST /connect-device
ConnectDeviceRoute ==
    /\ Len(calls) < MaxCalls
    /\ \E admin \in BOOLEAN :
        \E b \in ConnectRuns(FALSE, link) :
            LET r == adb_connect_device(admin, b.tcpip, b.connect)
            IN /\ calls' = Append(calls,
                    [op |-> "connect", disable |-> FALSE, administrator |-> admin,
                     linked |-> link, ran |-> r.ran, raised |-> r.raised, is_none |-> FALSE,
                     process |-> r.process, response |-> r.response])
               /\ link' = IF admin THEN b.link ELSE link
    /\ UNCHANGED <<list_vars, send_vars, pair_vars, qr_vars, serve_vars, app_vars>>

\* a call of Adb.kill_server
KillServerCall ==
    /\ Len(calls) < MaxCalls
    /\ \E b \in BridgeKillServer(link) :
        LET r == kill_server(b.out)
        IN /\ calls' = Append(calls,
                [op |-> "kill_server", disable |-> FALSE, administrator |-> TRUE,
                 linked |-> link, ran |-> r.ran, raised |-> r.raised, is_none |-> TRUE,
                 process |-> NoProcess, response |-> NoResponse])
           /\ link' = b.link
    /\ UNCHANGED <<list_vars, send_vars, pair_vars, qr_vars, serve_vars, app_vars>>

-----------------------------------------------------------------------------
(* The request-handling loop, GET /health/status and POST /send-text-message *)

\* the requests of a run
Requests == {"r1", "r2"}

\* nothing holds the event loop; no bridge process is running
Free == "<free>"

\* ADMIN_USERNAME and a username of the users table
Usernames == {"admin", "user"}

\* authenticate_with_token: the built-in administrator, or the row of the
\* users table
authenticate_with_token(username) ==
    IF username = "admin"
    THEN [username |-> username, messages_limit |-> 0, administrator |-> TRUE]
    ELSE [username |-> username, messages_limit |-> users.messages_limit,
          administrator |-> users.administrator]

\* adb_send_text_message, lines 137-144: the quota check
QuotaReachedMutStrict(admin, messages_sent, messages_limit) ==
    ~admin /\ messages_sent > messages_limit

QuotaReached(admin, messages_sent, messages_limit) ==
    ~admin /\ messages_sent >= messages_limit

\* the listings and the service-call outputs the bridge prints to a request
ServeListings ==
    {<<>>, <<[id |-> "X", status |-> "device"]>>, <<[id |-> "X", status |-> "unauthorized"]>>}

ServeParcels ==
    {<<ParcelOpen, "00000000", " ", "'", "....", "'", ")">>, <<"Result:", " ", "Error:">>}

NewRequest ==
    [route |-> "", username |-> "", administrator |-> FALSE, messages_limit |-> 0,
     device_id |-> None, phone_number |-> "", pc |-> "new", messages_sent |-> 0,
     cmds |-> <<>>, device_name |-> None, parcel_sent |-> "none",
     response |-> [status_code |-> 0, detail |-> ""]]

\* the phone numbers a request body may carry: national, with the country
\* code, and in international notation
BodyPhones == {"0501234567", "972501234567", "+972501234567"}

\* the characters of a phone number
PhoneChars(p) ==
    CASE p = "0501234567" -> <<"0", "5", "0", "1", "2", "3", "4", "5", "6", "7">>
      [] p = "972501234567" -> <<"9", "7", "2", "5", "0", "1", "2", "3", "4", "5", "6", "7">>
      [] p = "+972501234567" ->
            <<"+", "9", "7", "2", "5", "0", "1", "2", "3", "4", "5", "6", "7">>

IsDigit(c) == c \in {"0", "1", "2", "3", "4", "5", "6", "7", "8", "9"}

\* AdbSendTextMessageRequest.phone_number: ^(972|0)5[023458]\d{7}$
AdbSendTextMessageRequestPhone(chars) ==
    LET rest == IF Len(chars) >= 3 /\ SubSeq(chars, 1, 3) = <<"9", "7", "2">>
                THEN SubSeq(chars, 4, Len(chars))
                ELSE IF Len(chars) >= 1 /\ chars[1] = "0"
                THEN Tail(chars)
                ELSE <<>>
    IN /\ Len(rest) = 9
       /\ rest[1] = "5"
       /\ rest[2] \in {"0", "2", "3", "4", "5", "8"}
       /\ \A i \in 3..9 : IsDigit(rest[i])

\* Message_Model.sent_to: ^\+[1-9]\d{1,14}$
Message_ModelSentTo(chars) ==
    /\ Len(chars) \in 3..16
    /\ chars[1] = "+"
    /\ IsDigit(chars[2]) /\ chars[2] # "0"
    /\ \A i \in 3..Len(chars) : IsDigit(chars[i])

\* Message_Model(username=..., sent_to=...): the validation of the record's
\* fields (the usernames of the model are letters only; their length is
\* checked)
Message_Model(username, sent_to) ==
    /\ Len(username) \in 3..10
    /\ Message_ModelSentTo(PhoneChars(sent_to))

\* the fields a Message_Model holds
Message_ModelFields == {"username", "message", "sent_to", "sent_time"}

\* the attributes insert_message reads from the record and binds to the
\* INSERT statement
InsertFields == {"username", "message", "sent_to", "sent_time", "expires_at"}

\* SQLiteDb.insert_message on a count of stored records: a field the record
\* does not hold raises before anything is written
insert_message(count) ==
    IF InsertFields \subseteq Message_ModelFields
    THEN [raised |-> "none", count |-> count + 1]
    ELSE [raised |-> "AttributeError", count |-> count]

\* the request model's answer to a body it rejects
RequestValidationError == [status_code |-> 400, detail |-> "Validation error"]

\* body.message

ServeMessage == "hi"

ServeIdle ==
    /\ loop = Free
    /\ proc = Free
    /\ req = [r \in Requests |-> [NewRequest EXCEPT !.pc = "idle"]]
    /\ message_count = [u \in Usernames |-> 0]
    /\ users = [messages_limit |-> 0, administrator |-> FALSE]

ServeInit ==
    /\ loop = Free
    /\ proc = Free
    /\ req = [r \in Requests |-> NewRequest]
    /\ message_count = [u \in Usernames |-> 0]
    /\ \E l \in 0..MaxLimit, a \in BOOLEAN : users = [messages_limit |-> l, administrator |-> a]

\* how the handler's exceptions are answered: the route's except clauses,
\* anything else by the server's 500
ServeFailure(exc, detail) ==
    IF exc \in {"DeviceUnavailable", "DeviceConnectionError"}
    THEN [status_code |-> 500, detail |-> detail]
    ELSE IF exc = "FileNotFoundError"
    THEN [status_code |-> 500, detail |-> "ADB path specified was not found!"]
    ELSE [status_code |-> 500, detail |-> "Internal Server Error"]

\* the handler of request r ends with a response and the loop is released
ServeFinish(r, resp) ==
    /\ req' = [req EXCEPT ![r] = [@ EXCEPT !.pc = "done", !.response = resp]]
    /\ loop' = Free
    /\ proc' = Free

\* the event loop takes a request and runs its handler (all handlers are
\* `async def`, so on the loop itself) up to the handler's end or to its
\* first bridge command: adb_execute calls subprocess.run without yielding,
\* so the loop stays with the request while the process runs
ServeAccept(r) ==
    /\ req[r].pc = "new"
    /\ loop = Free
    /\ \E route \in {"send", "health"}, u \in Usernames, dev \in {None, "X"},
          phone \in BodyPhones :
        LET account == authenticate_with_token(u)
            messages_sent == message_count[u]
            taken == [req[r] EXCEPT !.route = route]
            body == [taken EXCEPT !.username = u,
                                  !.administrator = account.administrator,
                                  !.messages_limit = account.messages_limit,
                                  !.device_id = dev,
                                  !.device_name = dev,
                                  !.phone_number = phone,
                                  !.messages_sent = messages_sent]
        IN IF route = "health"
           THEN /\ req' = [req EXCEPT ![r] =
                              [taken EXCEPT !.pc = "done",
                                            !.response = [status_code |-> 200, detail |-> ""]]]
                /\ UNCHANGED <<loop, proc>>
           ELSE IF ~AdbSendTextMessageRequestPhone(PhoneChars(phone))
           THEN /\ req' = [req EXCEPT ![r] =
                              [taken EXCEPT !.username = u,
                                            !.phone_number = phone,
                                            !.pc = "done",
                                            !.response = RequestValidationError]]
                /\ UNCHANGED <<loop, proc>>
           ELSE IF QuotaReached(account.administrator, messages_sent, account.messages_limit)
           THEN /\ req' = [req EXCEPT ![r] =
                              [body EXCEPT !.pc = "done",
                                           !.response =
                                               [status_code |-> 403,
                                                detail |-> "You have reached your monthly message limit"]]]
                /\ UNCHANGED <<loop, proc>>
           ELSE IF MissingParameters(phone, ServeMessage)
           THEN /\ req' = [req EXCEPT ![r] =
                              [body EXCEPT !.pc = "done",
                                           !.response = ServeFailure("ValueError", "")]]
                /\ UNCHANGED <<loop, proc>>
           ELSE /\ req' = [req EXCEPT ![r] =
                              [body EXCEPT !.pc = "devices", !.cmds = <<<<"devices">>>>]]
                /\ loop' = r
                /\ proc' = r
    /\ UNCHANGED <<message_count, users>>
    /\ UNCHANGED <<list_vars, send_vars, pair_vars, qr_vars, conn_vars, app_vars>>

\* the bridge process of request r exits and the handler runs on to its
\* next bridge command or to its end
ServeCommandReturn(r) ==
    /\ proc = r
    /\ IF req[r].pc = "devices"
       THEN \E out \in {Completed(0, RenderListing(e)) : e \in ServeListings}
                         \cup {Raised(e) : e \in ExecutorFailures} :
               LET got == GetDevicesResult(out)
                   res == ResolveLoop(got.value, req[r].device_id, FALSE)
               IN IF got.raised # "none"
                  THEN ServeFinish(r, ServeFailure(got.raised, "")) /\ UNCHANGED message_count
                  ELSE IF res.unavailable
                  THEN /\ ServeFinish(r, ServeFailure("DeviceUnavailable",
                              "This device is not authorized\nStatus: " \o res.status))
                       /\ UNCHANGED message_count
                  ELSE IF ~res.device_found
                  THEN /\ ServeFinish(r, ServeFailure("DeviceConnectionError",
                              "No Authorized android device found. Please connect via USB or TCP"))
                       /\ UNCHANGED message_count
                  ELSE /\ req' = [req EXCEPT ![r] =
                                     [@ EXCEPT !.pc = "sms",
                                               !.device_name = res.device_name,
                                               !.cmds = Append(@, adb_command(res.device_name,
                                                                   req[r].phone_number,
                                                                   ServeMessage))]]
                       /\ UNCHANGED <<loop, proc, message_count>>
       ELSE \E out \in {Completed(0, t) : t \in ServeParcels}
                         \cup {Raised(e) : e \in ExecutorFailures} :
               LET sent == IF out.raised # "none" THEN "raised"
                           ELSE IF ParcelSearch(out.stdout) THEN "true" ELSE "false"
                   stored == insert_message(message_count[req[r].username])
                   resp == IF out.raised # "none"
                           THEN ServeFailure(out.raised, "")
                           ELSE IF ~ParcelSearch(out.stdout)
                           THEN ServeFailure("DeviceConnectionError",
                                   "Operation failed. This ADB command appears to be incompatible with your device's Android version.")
                           ELSE IF ~Message_Model(req[r].username, req[r].phone_number)
                           THEN ServeFailure("ValidationError", "")
                           ELSE IF stored.raised # "none"
                           THEN ServeFailure(stored.raised, "")
                           ELSE [status_code |-> 201,
                                 detail |-> "Message has been successfully sent"]
               IN /\ req' = [req EXCEPT ![r] = [@ EXCEPT !.pc = "done",
                                                         !.parcel_sent = sent,
                                                         !.response = resp]]
                  /\ loop' = Free
                  /\ proc' = Free
                  /\ message_count' =
                        IF sent = "true"
                           /\ Message_Model(req[r].username, req[r].phone_number)
                        THEN [message_count EXCEPT ![req[r].username] = stored.count]
                        ELSE message_count
    /\ UNCHANGED users
    /\ UNCHANGED <<list_vars, send_vars, pair_vars, qr_vars, conn_vars, app_vars>>

-----------------------------------------------------------------------------
(* Application startup (lifespan) and the monthly reset job *)

\* the first calendar year of a run
FirstYear == 2023

\* the calendar years a run covers
MaxYears == 2

\* PLAN_RESET_DAY_OF_MONTH as configured
ResetDays == -1..31

\* ADB_DEFAULT_DEVICE: unset, empty, an address
DefaultDevices == {None, "", "192.168.1.20"}

\* calendar.monthrange(year, month)[1]
monthrange(year, month) ==
    IF month = 2
    THEN (IF year % 4 = 0 /\ (year % 100 # 0 \/ year % 400 = 0) THEN 29 ELSE 28)
    ELSE IF month \in {4, 6, 9, 11} THEN 30 ELSE 31

\* the date after a date
NextDay(now) ==
    IF now.day < monthrange(now.year, now.month)
    THEN [now EXCEPT !.day = @ + 1]
    ELSE IF now.month < 12
    THEN [now EXCEPT !.month = @ + 1, !.day = 1]
    ELSE [year |-> now.year + 1, month |-> 1, day |-> 1]

should_run_todayMutNoClamp(day, now) ==
    IF day <= 0 THEN FALSE ELSE now.day = day

\* should_run_today(day) with datetime.now() = now
should_run_today(day, now) ==
    IF day <= 0
    THEN FALSE
    ELSE LET days_in_current_month == monthrange(now.year, now.month)
             target_day == IF day < days_in_current_month THEN day
                           ELSE days_in_current_month
         IN now.day = target_day

\* reset_all_messages: DELETE FROM messages, then the DELETE on
\* sqlite_sequence, then the commit; without a sqlite_sequence table in the
\* database file the second statement raises and nothing is committed
reset_all_messages(now, sequence_table) ==
    [year |-> now.year, month |-> now.month, day |-> now.day, committed |-> sequence_table]

\* monthly_message_reset() on the log of resets
monthly_message_reset(day, now, sequence_table, log) ==
    IF should_run_today(day, now)
    THEN Append(log, reset_all_messages(now, sequence_table))
    ELSE log

\* the application not started
AppIdle ==
    /\ settings = [qr_device_pairing |-> FALSE, auto_connect |-> FALSE,
                   default_device |-> None, plan_reset_day |-> 0,
                   sequence_table |-> FALSE]
    /\ boot = [pc |-> "idle", connection_failed |-> FALSE, scheduler |-> FALSE]
    /\ today = [year |-> FirstYear - 1, month |-> 12, day |-> 31]
    /\ resets = <<>>

\* the application about to run lifespan, on the eve of FirstYear
AppInit ==
    /\ boot = [pc |-> "start", connection_failed |-> FALSE, scheduler |-> FALSE]
    /\ today = [year |-> FirstYear - 1, month |-> 12, day |-> 31]
    /\ resets = <<>>

\* the settings startup depends on
StartupInit ==
    /\ AppInit
    /\ settings \in [qr_device_pairing : BOOLEAN, auto_connect : BOOLEAN,
                     default_device : DefaultDevices, plan_reset_day : {0, 1},
                     sequence_table : {FALSE}]

\* the settings the reset job depends on
SchedInit ==
    /\ AppInit
    /\ settings \in [qr_device_pairing : {FALSE}, auto_connect : {FALSE},
                     default_device : {None}, plan_reset_day : ResetDays,
                     sequence_table : BOOLEAN]

\* lifespan, lines 36-42: the scheduler and its daily job
LifespanSchedule ==
    /\ boot.pc = "start"
    /\ boot' = [boot EXCEPT !.pc = "connect",
                            !.scheduler = (settings.plan_reset_day # 0)]
    /\ UNCHANGED <<settings, today, resets>>
    /\ UNCHANGED <<list_vars, send_vars, pair_vars, qr_vars, conn_vars, serve_vars>>

\* lifespan, lines 44-53: the auto-connect attempt
LifespanConnect ==
    /\ boot.pc = "connect"
    /\ IF settings.auto_connect /\ Truthy(settings.default_device)
       THEN \E b \in ConnectRuns(FALSE, link) :
               LET r == connect_device(FALSE, b.tcpip, b.connect)
               IN /\ calls' = Append(calls,
                       [op |-> "connect", disable |-> FALSE, administrator |-> TRUE,
                        linked |-> link, ran |-> r.ran, raised |-> r.raised,
                        is_none |-> FALSE,
                        process |-> IF r.raised = "none" THEN r.process ELSE NoProcess,
                        response |-> NoResponse])
                  /\ link' = b.link
                  /\ boot' = [boot EXCEPT !.pc = "pairing",
                                          !.connection_failed = (r.raised # "none")]
       ELSE /\ boot' = [boot EXCEPT !.pc = "pairing"]
            /\ UNCHANGED conn_vars
    /\ UNCHANGED <<settings, today, resets>>
    /\ UNCHANGED <<list_vars, send_vars, pair_vars, qr_vars, serve_vars>>

\* lifespan, lines 55-58: the terminal pairing session
LifespanPairing ==
    /\ boot.pc = "pairing"
    /\ IF \/ boot.connection_failed /\ settings.qr_device_pairing
          \/ ~settings.auto_connect /\ settings.qr_device_pairing
       THEN StartListener("s1")
       ELSE UNCHANGED pair_vars
    /\ boot' = [boot EXCEPT !.pc = "ready"]
    /\ UNCHANGED <<settings, today, resets>>
    /\ UNCHANGED <<list_vars, send_vars, qr_vars, conn_vars, serve_vars>>

\* a day begins: the cron job (hour=0, minute=0), if the scheduler was
\* started, runs monthly_message_reset on the new date
Midnight ==
    /\ boot.pc = "ready"
    /\ NextDay(today).year < FirstYear + MaxYears
    /\ today' = NextDay(today)
    /\ resets' = IF boot.scheduler
                 THEN monthly_message_reset(settings.plan_reset_day, NextDay(today),
                                            settings.sequence_table, resets)
                 ELSE resets
    /\ UNCHANGED <<settings, boot>>
    /\ UNCHANGED <<list_vars, send_vars, pair_vars, qr_vars, conn_vars, serve_vars>>

-----------------------------------------------------------------------------
(* Specifications *)

InitList == ListInit /\ SendIdle /\ PairInit /\ QrIdle /\ ConnIdle /\ ServeIdle /\ AppIdle

ListNext == GetDevicesCall \/ ListDevicesRequest

SpecList == InitList /\ [][ListNext]_vars

InitSend == SendInit /\ ListIdle /\ PairInit /\ QrIdle /\ ConnIdle /\ ServeIdle /\ AppIdle

SendNext == SendValidate \/ SendQuery \/ SendResolve \/ SendIssue

SpecSend == InitSend /\ [][SendNext]_vars

InitPair == PairInit /\ ListIdle /\ SendIdle /\ QrIdle /\ ConnIdle /\ ServeIdle /\ AppIdle

PairNext ==
    \E s \in Sessions :
        \/ StartSession(s)
        \/ WorkerCheckEvent(s)
        \/ WorkerCheckTime(s)
        \/ WorkerClose(s)
        \/ Broadcast(s)
        \/ CallbackPair(s)
        \/ CallbackConnect(s)

SpecPair == InitPair /\ [][PairNext]_vars

\* the worker is a thread the scheduler keeps running: its sleep returns and
\* zeroconf.close() returns
FairSpecPair == SpecPair /\ \A s \in Sessions : WF_vars(WorkerStep(s))

\* one session on its own
InitPairOne == PairOneInit /\ ListIdle /\ SendIdle /\ QrIdle /\ ConnIdle /\ ServeIdle /\ AppIdle

PairOneNext ==
    \/ StartSession("s1")
    \/ WorkerCheckEvent("s1")
    \/ WorkerCheckTime("s1")
    \/ WorkerClose("s1")
    \/ Broadcast("s1")
    \/ CallbackPair("s1")
    \/ CallbackConnect("s1")

SpecPairOne == InitPairOne /\ [][PairOneNext]_vars

InitConn == ConnInit /\ ListIdle /\ SendIdle /\ PairInit /\ QrIdle /\ ServeIdle /\ AppIdle

ConnNext == PairDeviceCall \/ ConnectDeviceCall \/ ConnectDeviceRoute \/ KillServerCall

SpecConn == InitConn /\ [][ConnNext]_vars

InitServe == ServeInit /\ ListIdle /\ SendIdle /\ PairInit /\ QrIdle /\ ConnIdle /\ AppIdle

ServeNext == \E r \in Requests : ServeAccept(r) \/ ServeCommandReturn(r)

SpecServe == InitServe /\ [][ServeNext]_vars

InitQr == QrInit /\ ListIdle /\ SendIdle /\ PairInit /\ ConnIdle /\ ServeIdle /\ AppIdle

QrNext == QrGenerate \/ QrScan

SpecQr == InitQr /\ [][QrNext]_vars

\* application startup
InitStartup ==
    StartupInit /\ ListIdle /\ SendIdle /\ PairInit /\ QrIdle /\ ConnInit /\ ServeIdle

StartupNext == LifespanSchedule \/ LifespanConnect \/ LifespanPairing

SpecStartup == InitStartup /\ [][StartupNext]_vars

\* startup followed by the days of the calendar
InitSched ==
    SchedInit /\ ListIdle /\ SendIdle /\ PairInit /\ QrIdle /\ ConnInit /\ ServeIdle

SchedNext == LifespanSchedule \/ LifespanConnect \/ LifespanPairing \/ Midnight

SpecSched == InitSched /\ [][SchedNext]_vars

-----------------------------------------------------------------------------
(* The listing format, stated by positions in the text *)

\* where the lines of a text start
LineStarts(t) == {1} \cup {i + 1 : i \in {j \in 1..Len(t) : t[j] = "\n"}}

\* the last position of the line starting at a (a - 1 for an empty line)
LineEnd(t, a) ==
    IF \E j \in a..Len(t) : t[j] = "\n"
    THEN (CHOOSE j \in a..Len(t) : t[j] = "\n" /\ \A k \in a..(j - 1) : t[k] # "\n") - 1
    ELSE Len(t)

\* where the header line starts
HeaderStart(t) ==
    CHOOSE a \in LineStarts(t) : SubSeq(t, a, LineEnd(t, a)) = HeaderLine

\* where the tokens of the line [a, e] start
TokenStarts(t, a, e) ==
    {p \in a..e : ~IsSpace(t[p]) /\ (p = a \/ IsSpace(t[p - 1]))}

\* the token starting at p in the line ending at e
TokenAt(t, p, e) ==
    LET q == CHOOSE q \in p..e :
                 /\ \A k \in p..q : ~IsSpace(t[k])
                 /\ (q = e \/ IsSpace(t[q + 1]))
    IN Join(SubSeq(t, p, q))

\* the k-th smallest element of a set of numbers
RECURSIVE Kth(_, _)
Kth(S, k) ==
    LET m == CHOOSE x \in S : \A y \in S : x <= y
    IN IF k = 1 THEN m ELSE Kth(S \ {m}, k - 1)

\* the starts of the data lines: after the header, with at least two tokens
EntryLines(t) ==
    {a \in LineStarts(t) :
        /\ a > HeaderStart(t)
        /\ Cardinality(TokenStarts(t, a, LineEnd(t, a))) >= 2}

\* one entry per data line, in listing order
ExpectedDevices(t) ==
    [k \in 1..Cardinality(EntryLines(t)) |->
        LET a  == Kth(EntryLines(t), k)
            e  == LineEnd(t, a)
            ts == TokenStarts(t, a, e)
        IN [id |-> TokenAt(t, Kth(ts, 1), e), status |-> TokenAt(t, Kth(ts, 2), e)]]

-----------------------------------------------------------------------------
(* Claims about get_devices and GET /list-devices (SpecList) *)

\* C7: for every device-listing output, get_devices returns exactly the
\* (id, status) pairs of the lines after the header that split into at least
\* two whitespace tokens, one entry per such line, in listing order; the
\* header never appears and blank or one-token lines are skipped.
C7_ListDevicesParsesDataLines ==
    (list_pc = "returned" /\ output.raised = "none") =>
        /\ devices.raised = "none"
        /\ devices.value = ExpectedDevices(output.stdout)
        /\ \A i \in 1..Len(devices.value) : devices.value[i].id # "List"

\* C7 witness: a returned listing of two devices in order, from a text that
\* also holds a line the parser had to skip.
C7_Witness ==
    /\ list_pc = "returned"
    /\ output.raised = "none"
    /\ Len(devices.value) = 2
    /\ devices.value[1] # devices.value[2]
    /\ Len(SplitNewline(output.stdout, <<>>)) > 3

\* C7 witness for the malformed-line case is part of the free listings:
\* a one-token line between the header and a data line.
C7_SkippedLineReached ==
    /\ list_pc = "returned"
    /\ output.raised = "none"
    /\ output.stdout = HeaderLine \o <<"\n", "X", "\n", "X", " ", "host">>
    /\ devices.value = <<[id |-> "X", status |-> "host"]>>

\* C8 (as claimed): a device whose status is outside the listed set reaches
\* the caller of GET /list-devices with that status unchanged: an
\* administrator's request whose listing was obtained answers 200 with
\* exactly the entries get_devices returned.
C8_UnknownStatusDelivered ==
    (list_pc = "responded" /\ administrator /\ output.raised = "none") =>
        /\ list_response.status_code = 200
        /\ list_response.body = get_devices(output.stdout)

-----------------------------------------------------------------------------
(* Claims about send_text_message (SpecSend) *)

\* the SMS service call among the commands handed to the executor
IsSmsCommand(c) == Len(c) > 6 /\ c[1] = "-s" /\ c[6] = "isms"

SmsCommands == {k \in 1..Len(commands) : IsSmsCommand(commands[k])}

\* the loop and the device_found check are behind the call
Resolved ==
    \/ send_pc = "issue"
    \/ send_pc = "done" /\ send_result.exc \in {"DeviceUnavailable", "DeviceConnectionError"}
    \/ send_pc = "done" /\ SmsCommands # {}

\* the entries at status `device`, by position
ReadyEntries == {i \in 1..Len(all_devices) : all_devices[i].status = "device"}

FirstReady == CHOOSE i \in ReadyEntries : \A j \in ReadyEntries : i <= j

\* the position from which the loop compares entries with the identifier:
\* the whole listing for a given device_id, the first ready entry otherwise
ResolvedFrom == IF Truthy(device_id) THEN 1 ELSE FirstReady

\* C1: the SMS service call is issued only when the listing just queried
\* holds an entry for the resolved device identifier at status `device`,
\* and it is addressed to that identifier.
C1_SmsOnlyToReadyDevice ==
    \A k \in SmsCommands :
        /\ commands[k][2] = Str(device_name)
        /\ \E i \in 1..Len(all_devices) :
              all_devices[i].id = commands[k][2] /\ all_devices[i].status = "device"

\* C1 witness: the command was issued for a default device taken from a
\* listing of several entries, the first of them not ready.
C1_Witness ==
    /\ SmsCommands # {}
    /\ device_id = None
    /\ Len(all_devices) >= 2
    /\ all_devices[1].status # "device"

\* C2 (as claimed): whenever phone_number or message is empty the call fails
\* with ValueError and neither the directory query nor any command is made.
C2_EmptyParameterRejected ==
    (send_pc # "start" /\ (phone_number = "" \/ message = "")) =>
        /\ send_result = Raises("ValueError", "")
        /\ commands = <<>>

\* C3: with device_id unset, the device used and returned is the first
\* entry, in listing order, at status `device`; entries before it at another
\* status and later entries at status `device` neither change the choice nor
\* cause an error.
C3_DefaultIsFirstReady ==
    (device_id = None /\ Resolved) =>
        /\ ReadyEntries # {} => device_name = all_devices[FirstReady].id
        /\ send_result.kind = "return" => send_result.device = all_devices[FirstReady].id
        /\ \A k \in SmsCommands : commands[k][2] = all_devices[FirstReady].id
        /\ ( /\ ReadyEntries # {}
             /\ \A i \in 1..Len(all_devices) :
                   (i > FirstReady /\ all_devices[i].id = all_devices[FirstReady].id)
                       => all_devices[i].status = "device" )
           => (send_pc = "issue" \/ SmsCommands # {})

\* C3 witness: the call returned the second entry of the listing, after a
\* first entry that is not ready.
C3_Witness ==
    /\ device_id = None
    /\ send_result.kind = "return"
    /\ Len(all_devices) = 2
    /\ all_devices[1].status = "unauthorized"
    /\ send_result.device = all_devices[2].id
    /\ all_devices[1].id # all_devices[2].id

\* the entries that match the resolved identifier at a status other than
\* `device`
NotReadyMatches ==
    {i \in 1..Len(all_devices) :
        all_devices[i].id = device_name /\ all_devices[i].status # "device"}

\* C4 (as claimed): when the resolved identifier matches an entry whose
\* status is not `device`, the call fails with DeviceUnavailable naming the
\* status of such an entry, and no command is issued.
C4_AnyNotReadyMatchFails ==
    (Resolved /\ Truthy(phone_number) /\ Truthy(message) /\ NotReadyMatches # {}) =>
        /\ send_result.exc = "DeviceUnavailable"
        /\ \E i \in NotReadyMatches : send_result.status = all_devices[i].status
        /\ SmsCommands = {}

\* the not-ready matches the loop can meet: those of the whole listing for a
\* given device_id, those from the first ready entry on for an unset one
SeenNotReadyMatches ==
    IF ~Truthy(device_id) /\ ReadyEntries = {} THEN {}
    ELSE {i \in NotReadyMatches : i >= ResolvedFrom}

\* C4 (amended): when the resolved identifier matches an entry whose status
\* is not `device`, and that entry is not listed before the entry an unset
\* device_id was resolved from, the call fails with DeviceUnavailable naming
\* the status of the first such entry, no SMS command is issued and the
\* failure is not DeviceConnectionError; DeviceUnavailable is raised in no
\* other case.
C4_NotReadyMatchFails ==
    Resolved =>
        /\ SeenNotReadyMatches # {} =>
              LET first == CHOOSE i \in SeenNotReadyMatches :
                               \A j \in SeenNotReadyMatches : i <= j
              IN /\ send_result = Raises("DeviceUnavailable", all_devices[first].status)
                 /\ SmsCommands = {}
        /\ send_result.exc = "DeviceUnavailable" => SeenNotReadyMatches # {}

\* C4 witness: directory [{X, unauthorized}], device_id = X.
C4_Witness ==
    /\ device_id = "X"
    /\ all_devices = <<[id |-> "X", status |-> "unauthorized"]>>
    /\ send_result = Raises("DeviceUnavailable", "unauthorized")
    /\ SmsCommands = {}

\* C5: the call fails with DeviceConnectionError, issuing no SMS command,
\* exactly when no entry of the listing matches the resolved identifier: so
\* for an unset device_id with no entry at status `device`, and for a
\* device_id absent from the listing; an unset device_id with exactly one
\* entry at status `device` resolves to that entry.
C5_ConnectionErrorIffNoMatch ==
    Resolved =>
        /\ send_result.exc = "DeviceConnectionError"
              <=> (\A i \in 1..Len(all_devices) : all_devices[i].id # device_name)
        /\ send_result.exc = "DeviceConnectionError" => SmsCommands = {}
        /\ (device_id = None /\ ReadyEntries = {})
              => send_result.exc = "DeviceConnectionError"
        /\ (device_id # None /\ \A i \in 1..Len(all_devices) : all_devices[i].id # device_id)
              => send_result.exc = "DeviceConnectionError"
        /\ (device_id = None /\ Cardinality(ReadyEntries) = 1)
              => /\ device_name = all_devices[FirstReady].id
                 /\ send_result.exc # "DeviceConnectionError"

\* C5 witness: device_id unset, a listing with entries but none ready, and
\* the call ended with DeviceConnectionError.
C5_Witness ==
    /\ device_id = None
    /\ Len(all_devices) >= 1
    /\ ReadyEntries = {}
    /\ send_result.exc = "DeviceConnectionError"
    /\ Len(commands) = 1

\* the all-zero parcel the service call prints: Result: Parcel(00000000    '....')
EmptyParcel ==
    <<ParcelOpen, "00000000", " ", " ", " ", " ", "'", "....", "'", ")">>

\* C6 (as claimed): for a ready device the call never raises because of the
\* command's output, and an output that is exactly the all-zero parcel gives
\* (false, device_id).
C6_EmptyParcelIsFailure ==
    (/\ send_pc = "done" /\ SmsCommands # {} /\ parcel.raised = "none"
     /\ Truthy(phone_number) /\ Truthy(message)) =>
        /\ send_result.kind = "return"
        /\ send_result.device = device_name
        /\ parcel.stdout = EmptyParcel => send_result.success = FALSE

-----------------------------------------------------------------------------
(* Claims about the pairing service (SpecPair, FairSpecPair) *)

\* the positions of a session's commands in the log
LogOf(s, cmd) == {k \in 1..Len(pair_log) : pair_log[k].sess = s /\ pair_log[k].cmd = cmd}

\* C9: within one pairing session a connect command is issued only after a
\* pair command of the same session has returned success: the session's
\* latest pair command before any of its connect commands succeeded, so no
\* connect comes before a pair or after a failed pair.
C9_ConnectOnlyAfterSuccessfulPair ==
    \A s \in Sessions :
        \A k \in LogOf(s, "connect") \cup LogOf(s, "tcpip") :
            \E j \in LogOf(s, "pair") :
                /\ j < k
                /\ pair_log[j].ok
                /\ \A m \in LogOf(s, "pair") : m < k => m <= j

\* C9 witness: with both sessions started, one of them ran its connect
\* command, after its pair command and the tcpip restart.
C9_Witness ==
    \E s \in Sessions :
        /\ LogOf(s, "connect") # {}
        /\ LogOf(s, "pair") # {}
        /\ Len(pair_log) = 3
        /\ \A t \in Sessions : worker[t] # "idle"

\* C10: a started session's worker eventually exits with its discovery
\* browser closed, whatever broadcasts arrive; when it exits without the
\* completion flag set, it has reported the timeout.
C10_WorkerExitsAndBrowserCloses ==
    \A s \in Sessions :
        (worker[s] = "loop") ~>
            (/\ worker[s] = "exited"
             /\ browser[s] = "closed"
             /\ (shutdown_event[s] \/ timed_out[s]))

\* C10 witness: a session that paired but could not connect ended by
\* timeout, its browser closed and its completion flag unset.
C10_Witness ==
    \E s \in Sessions :
        /\ worker[s] = "exited"
        /\ browser[s] = "closed"
        /\ timed_out[s]
        /\ ~shutdown_event[s]
        /\ LogOf(s, "pair") # {}

\* C11 (as claimed): once a session has timed out, no pair command with that
\* session's password is issued for it, whenever the matching broadcast
\* arrived.
C11_NoPairAfterTimeout ==
    [][\A s \in Sessions :
          timed_out[s] =>
              {k \in LogOf(s, "pair") : pair_log[k].password = password[s]}'
                  = {k \in LogOf(s, "pair") : pair_log[k].password = password[s]}]_vars

\* C12 (as claimed): any two sessions started have different service names
\* and different passwords.
C12_CredentialsNeverReused ==
    \A s, t \in Sessions :
        (s # t /\ worker[s] # "idle" /\ worker[t] # "idle") =>
            /\ target_name[s] # target_name[t]
            /\ password[s] # password[t]

\* C13 (as claimed): a failure raised while one discovered service is handled
\* (address resolution, the pair command, the connect command) never leaves
\* the discovery callback.
C13_CallbackSwallowsFailures ==
    \A s \in Sessions : ~escaped[s]

\* what belongs to one session: its listener, its worker, its browser and
\* its running callback
SessionState(s) ==
    <<target_name[s], password[s], shutdown_event[s], worker[s], browser[s],
      elapsed[s], timed_out[s], callback[s], heard[s], escaped[s]>>

\* C14: a session has one worker and one browser, started together and never
\* started again; every step changes the state of at most one session and
\* adds bridge commands of that session only, so a broadcast, a pair or
\* connect result, the completion flag or the timeout of one session leaves
\* the others as they were; and a callback goes on to pair and connect only
\* for a broadcast whose name contains the session's own service name.
C14_SessionsIndependent ==
    [][/\ \E s \in Sessions :
            /\ \A t \in Sessions \ {s} : SessionState(t)' = SessionState(t)
            /\ Len(pair_log') >= Len(pair_log)
            /\ SubSeq(pair_log', 1, Len(pair_log)) = pair_log
            /\ \A k \in (Len(pair_log) + 1)..Len(pair_log') : pair_log'[k].sess = s
       /\ \A s \in Sessions :
            /\ (worker'[s] # "idle") <=> (browser'[s] # "none")
            /\ worker[s] # "idle" =>
                  /\ worker'[s] # "idle"
                  /\ target_name'[s] = target_name[s]
                  /\ password'[s] = password[s]
            /\ worker[s] = "exited" => worker'[s] = "exited"
            /\ browser[s] = "closed" => browser'[s] = "closed"
            /\ browser[s] = "open" => browser'[s] \in {"open", "closed"}
            /\ callback'[s] # "idle" => target_name[s] \in heard'[s]
            /\ \A k \in (Len(pair_log) + 1)..Len(pair_log') :
                  pair_log'[k].sess = s => target_name[s] \in heard[s]]_vars

\* C14 witness: two sessions with different names; the first has ended by
\* its timeout with nothing heard, while the second, still listening, is in
\* a callback for a broadcast carrying its own name and has paired.
C14_Witness ==
    /\ target_name["s1"] # target_name["s2"]
    /\ worker["s1"] = "exited"
    /\ timed_out["s1"]
    /\ LogOf("s1", "pair") = {}
    /\ worker["s2"] \in {"loop", "timecheck"}
    /\ callback["s2"] = "connect"
    /\ target_name["s2"] \in heard["s2"]
    /\ LogOf("s2", "pair") # {}

-----------------------------------------------------------------------------
(* Claims about the QR payload (SpecQr) *)

\* C18: reading a generated payload WIFI:T:ADB;S:<name>;P:<password>;; back
\* gives exactly the service name and the password it was generated from,
\* for every name and password the generators can return.
C18_QrRoundTrip ==
    qr_pc = "scanned" =>
        /\ scanned.ok
        /\ scanned.service_name = service_name
        /\ scanned.password = code

\* C18 witness: a payload whose name and password share characters was
\* generated, read back, and gave the two values apart.
C18_Witness ==
    /\ qr_pc = "scanned"
    /\ service_name = <<"adb-pairing-", "9", "0">>
    /\ code = <<"0", "9">>
    /\ qr_data = <<"WIFI", ":", "T", ":", "ADB", ";", "S", ":", "adb-pairing-", "9", "0",
                   ";", "P", ":", "0", "9", ";", ";">>
    /\ scanned.service_name = <<"adb-pairing-", "9", "0">>
    /\ scanned.password = <<"0", "9">>

-----------------------------------------------------------------------------
(* Claims about the Connection Manager (SpecConn) *)

\* the executor raised in one of the commands of a call
ExecutorFailed(c) == \E k \in 1..Len(c.ran) : c.ran[k].out.raised # "none"

\* C16 (as claimed): in pair, connect and kill_server a failure of the
\* executor (missing binary, timeout) reaches the caller as that failure:
\* the call raises it, runs nothing after it and does not run the failed
\* command again.
C16_ExecutorFailuresPropagate ==
    \A i \in 1..Len(calls) :
        \A k \in 1..Len(calls[i].ran) :
            calls[i].ran[k].out.raised # "none" =>
                /\ calls[i].raised = calls[i].ran[k].out.raised
                /\ k = Len(calls[i].ran)
                /\ \A j \in 1..Len(calls[i].ran) :
                      j # k => calls[i].ran[j].cmd # calls[i].ran[k].cmd

\* C19 (as claimed): two connect calls in a row against an address the
\* bridge is connected to both give the "already" signal, and the
\* connection is still there after the first.
C19_ConnectTwiceAlready ==
    \A i \in 1..Len(calls) :
        (/\ i < Len(calls)
         /\ calls[i].op = "connect" /\ calls[i + 1].op = "connect"
         /\ calls[i].administrator /\ calls[i + 1].administrator
         /\ calls[i].linked
         /\ ~ExecutorFailed(calls[i]) /\ ~ExecutorFailed(calls[i + 1])) =>
            /\ Contains(calls[i].process.stdout, "already")
            /\ calls[i + 1].linked
            /\ Contains(calls[i + 1].process.stdout, "already")

\* C20: a connect whose commands all completed returns the result of the
\* connect command whatever its output says, also when stdout holds neither
\* "connected" nor "already"; the classification is the caller's:
\* POST /connect-device answers 200 with the output and the detail
\* "ADB Error while connecting to device!" for such an output (and cannot
\* build its response for an output of more than 99 characters).
C20_ConnectNeverRaisesOnOutput ==
    \A i \in 1..Len(calls) :
        LET c == calls[i]
        IN (c.op = "connect" /\ c.administrator /\ ~ExecutorFailed(c)) =>
              /\ c.raised = "none"
              /\ c.process = c.ran[Len(c.ran)].out
              /\ c.ran[Len(c.ran)].cmd = "connect"
              /\ c.response # NoResponse =>
                    /\ c.response.status_code \in {200, 500}
                    /\ c.response.status_code = 200
                          <=> Chars(c.process.stdout) <= AdbOutputMaxLength
                    /\ c.response.status_code = 200 =>
                          /\ c.response.adb_output = c.process.stdout
                          /\ c.response.detail =
                                IF Contains(c.process.stdout, "connected")
                                   \/ Contains(c.process.stdout, "already")
                                THEN "ADB is now connected to device"
                                ELSE "ADB Error while connecting to device!"

\* C20 witness: the route's connect command printed a failure text, the
\* call returned it and the route answered 200 with the error detail.
C20_Witness ==
    \E i \in 1..Len(calls) :
        /\ calls[i].op = "connect"
        /\ calls[i].raised = "none"
        /\ calls[i].process.stdout = <<"failed", " ", "to", " ", "connect">>
        /\ calls[i].response.status_code = 200
        /\ calls[i].response.detail = "ADB Error while connecting to device!"
        /\ calls[i].response.adb_output = <<"failed", " ", "to", " ", "connect">>

-----------------------------------------------------------------------------
(* Claims about the request-handling loop and POST /send-text-message
   (SpecServe) *)

\* C15 (as claimed): while a bridge command runs as a process for one
\* request, another request that has arrived is not blocked: the event loop
\* can take it and run its handler.
C15_OtherRequestsNotBlocked ==
    \A r, q \in Requests :
        (proc = r /\ q # r /\ req[q].pc = "new") => ENABLED ServeAccept(q)

\* C17: POST /send-text-message goes on to send_text_message only after the
\* quota check passed: a non-administrator whose recorded message count is
\* at or over its messages_limit is answered 403 with no device query and no
\* bridge command made, anyone else is not answered 403, and the count
\* compared is the number of the account's recorded messages (stated for the
\* requests whose body the request model accepted).
C17_QuotaCheckedBeforeSend ==
    \A r \in Requests :
        (req[r].route = "send" /\ req[r].pc # "new"
         /\ req[r].response # RequestValidationError) =>
            LET over == ~req[r].administrator
                        /\ req[r].messages_sent >= req[r].messages_limit
            IN /\ over <=> req[r].response.status_code = 403
               /\ over => (req[r].pc = "done" /\ req[r].cmds = <<>>)
               /\ ~over => (req[r].cmds # <<>> /\ req[r].cmds[1] = <<"devices">>)
               /\ req[r].pc \in {"devices", "sms"} =>
                     req[r].messages_sent = message_count[req[r].username]

\* C17 witness: an account at its limit was refused with no command made,
\* and the administrator's request, with the same count, reached the SMS
\* command.
C17_Witness ==
    /\ ~users.administrator
    /\ req["r1"].username = "user"
    /\ req["r1"].route = "send"
    /\ req["r1"].messages_sent >= req["r1"].messages_limit
    /\ req["r1"].response.status_code = 403
    /\ req["r1"].cmds = <<>>
    /\ req["r2"].username = "admin"
    /\ req["r2"].route = "send"
    /\ req["r2"].messages_sent >= req["r2"].messages_limit
    /\ req["r2"].pc = "sms"

-----------------------------------------------------------------------------
(* Claims about the handshake of a pairing session (SpecPair, SpecPairOne) *)

\* C21 (as claimed): a session's completion flag is set only after one of
\* its connect commands returned an output with "connected" or "already".
C21_CompleteOnlyAfterConnectSuccess ==
    \A s \in Sessions :
        shutdown_event[s] => \E k \in LogOf(s, "connect") : pair_log[k].ok

\* C22 (as claimed): no tcpip command is issued in a session's handshake.
C22_NoTcpipRestartInHandshake ==
    \A s \in Sessions : LogOf(s, "tcpip") = {}

\* C25 (as claimed): no session is both reported timed out and marked
\* complete.
C25_CompletedOrTimedOut ==
    \A s \in Sessions : ~(timed_out[s] /\ shutdown_event[s])

\* C26 (as claimed): once a session's completion flag is set, no further
\* bridge command is issued for it.
C26_NoHandshakeAfterCompletion ==
    [][\A s \in Sessions :
          shutdown_event[s] =>
              {k \in 1..Len(pair_log') : pair_log'[k].sess = s}
                  = {k \in 1..Len(pair_log) : pair_log[k].sess = s}]_vars

-----------------------------------------------------------------------------
(* Claims about the commands of connect_device (SpecConn) *)

\* the names of the commands a call issued, in the order issued
CommandsOf(c) == [k \in 1..Len(c.ran) |-> c.ran[k].cmd]

\* the calls that reached Adb.connect_device
ConnectCalls == {i \in 1..Len(calls) : calls[i].op = "connect" /\ calls[i].administrator}

\* C23 (as claimed): connect_device with the restart not disabled issues
\* exactly the tcpip command and then the connect command; with the restart
\* disabled it issues only the connect command.
C23_ConnectAlwaysTwoCommands ==
    \A i \in ConnectCalls :
        CommandsOf(calls[i]) = IF calls[i].disable THEN <<"connect">>
                               ELSE <<"tcpip", "connect">>

\* C23 (amended): connect_device with the restart not disabled issues the
\* tcpip command first and then, unless the execution of the tcpip command
\* failed (the failure leaves connect_device), the connect command, and no
\* other command; with the restart disabled it issues only the connect
\* command.
C23_ConnectCommandOrder ==
    \A i \in ConnectCalls :
        LET c == calls[i]
        IN IF c.disable
           THEN CommandsOf(c) = <<"connect">>
           ELSE \/ /\ CommandsOf(c) = <<"tcpip", "connect">>
                   /\ c.ran[1].out.raised = "none"
                \/ /\ CommandsOf(c) = <<"tcpip">>
                   /\ c.ran[1].out.raised # "none"
                   /\ c.raised = c.ran[1].out.raised

C23_Witness ==
    /\ \E i \in ConnectCalls :
          ~calls[i].disable /\ CommandsOf(calls[i]) = <<"tcpip", "connect">>
    /\ \E i \in ConnectCalls :
          calls[i].disable /\ CommandsOf(calls[i]) = <<"connect">>

-----------------------------------------------------------------------------
(* Claims about the SMS service call (SpecSend) *)

\* the words of the service call the claim describes, for a phone number
\* and a message text
ServiceCallWords(phone, msg) ==
    << <<"service">>, <<"call">>, <<"isms">>, <<"5">>,
       <<"i32">>, <<"0">>,
       <<"s16">>, <<"com.android.mms.service">>,
       <<"s16">>, <<"null">>,
       <<"s16">>, ArgumentAtoms(phone),
       <<"s16">>, <<"null">>,
       <<"s16">>, MessageAtoms(msg),
       <<"s16">>, <<"null">>,
       <<"s16">>, <<"null">>,
       <<"i32">>, <<"0">>,
       <<"i64">>, <<"0">> >>

\* C24 (as claimed): the SMS command is addressed to the resolved device and
\* the service call the device runs has the typed arguments in the fixed
\* order, each a type tag followed by its value, with the phone number and
\* the message text unchanged (stated for the calls that passed a phone
\* number and a message).
C24_ServiceCallShape ==
    \A k \in SmsCommands :
        (Truthy(phone_number) /\ Truthy(message)) =>
        /\ SubSeq(commands[k], 1, 3) = <<"-s", Str(device_name), "shell">>
        /\ ShellWords(RemoteLine(commands[k])).ok
        /\ ShellWords(RemoteLine(commands[k])).words
              = ServiceCallWords(phone_number, message)

-----------------------------------------------------------------------------
(* Claims about the quota and the message records (SpecServe) *)

\* the requests of the users-table account that got as far as the SMS
\* command
SmsIssued(u) ==
    {r \in Requests : req[r].username = u /\ \E k \in 1..Len(req[r].cmds) :
                                                 IsSmsCommand(req[r].cmds[k])}

\* C27 (as claimed): for a non-administrator account the number of requests
\* for which an SMS command is issued never exceeds its messages_limit.
C27_SmsIssuedWithinLimit ==
    ~users.administrator => Cardinality(SmsIssued("user")) <= users.messages_limit

\* C28 (as claimed): the step in which send_text_message returns success
\* stores exactly one record for the requesting account, whatever accepted
\* phone number the body holds, and a step in which it returns failure or
\* raises stores none.
C28_SuccessStoresOneRecord ==
    [][\A r \in Requests :
          (req[r].pc = "sms" /\ req'[r].pc = "done") =>
              message_count' =
                  IF req'[r].parcel_sent = "true"
                  THEN [message_count EXCEPT ![req[r].username] = @ + 1]
                  ELSE message_count]_vars

-----------------------------------------------------------------------------
(* Claims about application startup (SpecStartup) *)

\* the auto-connect attempt was made and its connect command printed
\* "connected" or "already"
AutoConnected ==
    \E i \in 1..Len(calls) :
        /\ calls[i].raised = "none"
        /\ \/ Contains(calls[i].process.stdout, "connected")
           \/ Contains(calls[i].process.stdout, "already")

\* C29 (as claimed): once startup is through, a terminal pairing session
\* has been started exactly when QR pairing is enabled and auto-connect did
\* not connect the default device (disabled, no default device, raised, or a
\* non-success output).
C29_PairingWheneverNotConnected ==
    boot.pc = "ready" =>
        (worker["s1"] # "idle" <=> (settings.qr_device_pairing /\ ~AutoConnected))

-----------------------------------------------------------------------------
(* Claims about the monthly reset (SpecSched) *)

\* the calls of reset_all_messages made in a month
ResetsIn(year, month) ==
    {k \in 1..Len(resets) : resets[k].year = year /\ resets[k].month = month}

\* the day of a month the claim names for a configured day
TargetDay(d, year, month) ==
    IF d < monthrange(year, month) THEN d ELSE monthrange(year, month)

\* the months of the run that began with the application up
MonthsBegun ==
    {ym \in (FirstYear..(FirstYear + MaxYears - 1)) \X (1..12) :
        \/ ym[1] < today.year
        \/ ym[1] = today.year /\ ym[2] <= today.month}

====
